---- MODULE Spec2Model ----
(***************************************************************************)
(* The ReAct control loop of src/src/workflow/graph.py and its intent      *)
(* router src/src/workflow/router.py, as a state machine: one graph        *)
(* invocation ("turn") runs classify_intent, then friendly_chat or the     *)
(* call_model / execute_tool cycle, until END.                             *)
(*                                                                         *)
(* Python values are modelled by strings: None is the string None below,   *)
(* a model output is a sequence of lines, a line is a record               *)
(* [marker, text] (marker "" for a line carrying none of the markers).     *)
(*                                                                         *)
(* Spec and SessionSpec run the graph; ParserSpec and ClientSpec apply     *)
(* _parse_model_output and graph.py's _call_local_llm on their own, to     *)
(* every input of a bounded set.                                           *)
(***************************************************************************)
EXTENDS Integers, Sequences, FiniteSets, TLC

-----------------------------------------------------------------------------
(* Bounds of the model *)

\* call_model makes at most MaxIter model calls in one turn of the model
MaxIter == 2
\* a session of the model holds at most MaxEscalations follow-up escalations
MaxEscalations == 6
\* in a session that carries its state over, call_model makes at most SessionIter
\* model calls per turn
SessionIter == 1
\* the shortest time (seconds) a model request takes in the model
MinCallTime == 12
\* a model output handed to _parse_model_output on its own has at most MaxLines lines
MaxLines == 4

(* Program constants *)

\* followups >= 5 (graph.py:348)
FollowupCap == 5
\* faulty variant: one attempt too many
ReflectAttempts_four == 3 + 1
\* attempts: int = 3 (graph.py:434)
ReflectAttempts == 3
\* timeout: int = 20 (graph.py:32)
LLMTimeout == 20
\* the budget of the timeout guard, 10 s (spec section 5); the code states none
TimeBudget == 10

-----------------------------------------------------------------------------
(* Values *)

None == "<None>"

\* bool(x) of a str | None value
Truthy(v) == v # None /\ v # ""

\* a subset of src.tools.__all__ (every name in it resolves to a callable)
_tool_registry == {"find_smes_by_location", "run_demo_presentation"}

\* the literal of graph.py:349
CANNED == "Sebastian is working on that!"
CLARIFY_EN == "I need a bit more detail to proceed ..."
CLARIFY_ZH == "zh: I need a bit more detail to proceed ..."
Clarifications == {CLARIFY_EN, CLARIFY_ZH}

\* the user messages of the model: kind of request and script
UserMessages == {"route question", "zh: analyze /repo/model.py"}

\* _is_cjk / _detect_user_language over the one user message of a turn
_detect_user_language(msg) == IF msg = "zh: analyze /repo/model.py" THEN "zh" ELSE "en"

\* candidate_path and _valid_target_path(candidate_path) and _should_analyze_code(user_message)
WantsCodeAnalysis(msg) == msg = "zh: analyze /repo/model.py"

-----------------------------------------------------------------------------
(* Model outputs and the parser *)

Line(m, t) == [marker |-> m, text |-> t]

\* Action Input payloads: JSON objects, a JSON array, no JSON
JSON_OBJ  == "{\"location\": \"Salinas\"}"
JSON_EMPTY == "{}"
JSON_ARR  == "[1]"
JSON_BAD  == "{oops"

\* str.strip() over the texts of the model
strip(text) ==
    CASE text = " Monterey "             -> "Monterey"
      [] text = " find_smes_by_location" -> "find_smes_by_location"
      [] OTHER                           -> text

\* json.loads(raw): the parsed value, or "JSONDecodeError"
json_loads(raw) ==
    CASE raw = JSON_OBJ   -> "dict:location"
      [] raw = JSON_EMPTY -> "dict:empty"
      [] raw = JSON_ARR   -> "list:1"
      [] OTHER            -> "JSONDecodeError"

\* faulty variant: any JSON value passes for an object
isinstance_dict_any(v) == v # None

\* isinstance(v, dict)
isinstance_dict(v) == v \in {"dict:location", "dict:empty", "dict:path"}

\* faulty variant: the first Action line wins
ActionOf_first(l, action) ==
    IF l.marker = "Action:" /\ action = None THEN strip(l.text) ELSE action

\* if line.strip().startswith("Action:"): action = line.split("Action:", 1)[1].strip()
ActionOf(l, action) == IF l.marker = "Action:" THEN strip(l.text) ELSE action

\* the Action Input branch: json.loads of the payload, None on JSONDecodeError
InputOf(l, action_input) ==
    IF l.marker = "Action Input:"
    THEN (LET v == json_loads(strip(l.text)) IN IF v = "JSONDecodeError" THEN None ELSE v)
    ELSE action_input

\* faulty variant: .strip() is missing
FinalOf_unstripped(l, final_answer) ==
    IF l.marker = "Final Answer:" THEN l.text ELSE final_answer

\* the Final Answer branch
FinalOf(l, final_answer) ==
    IF l.marker = "Final Answer:" THEN strip(l.text) ELSE final_answer

\* for line in model_output.splitlines(), from line i on
RECURSIVE ParseLines(_, _, _, _, _)
ParseLines(lines, i, action, action_input, final_answer) ==
    IF i > Len(lines) THEN <<action, action_input, final_answer>>
    ELSE LET l == lines[i] IN
         ParseLines(lines, i + 1, ActionOf(l, action), InputOf(l, action_input),
                    FinalOf(l, final_answer))

_parse_model_output(model_output) == ParseLines(model_output, 1, None, None, None)

LLM_ERROR == <<Line("Local LLM error:", "timed out")>>

\* an entry of thought_history: the raw output, of which the model keeps only that
\* it is one (no step reads an entry back, but to render the next prompt)
Thought(model_output) == "model_output"

\* faulty variant: the failure value is not recognised
IsLLMError_never(model_output) == FALSE

\* model_output.startswith("Local LLM error:")
IsLLMError(model_output) ==
    Len(model_output) > 0 /\ model_output[1].marker = "Local LLM error:"

\* the responses the model backend gives in the reasoning loop of the model
ModelOutputs == {
    <<Line("Final Answer:", "Monterey")>>,
    <<Line("", "Thought: hm")>>,
    <<Line("Action:", "find_smes_by_location"), Line("Action Input:", JSON_OBJ)>>,
    <<Line("Action:", "run_demo_presentation"), Line("Action Input:", JSON_OBJ)>>,
    <<Line("Action:", "find_smes_by_location"), Line("Action Input:", JSON_BAD)>>,
    <<Line("Action:", "find_smes_by_location"), Line("Action Input:", JSON_ARR)>>,
    <<Line("Action:", "nonexistent_tool"), Line("Action Input:", JSON_OBJ)>>,
    <<Line("Action:", "nonexistent_tool"), Line("Action Input:", JSON_BAD)>>,
    <<Line("Final Answer:", "Monterey"), Line("Action:", "find_smes_by_location"),
      Line("Action Input:", JSON_OBJ)>>,
    <<Line("Action:", ""), Line("Final Answer:", "")>> }


-----------------------------------------------------------------------------
(* The model backend *)

\* what one HTTP request to the backend does
Outcomes == {"ok", "HTTPError", "Timeout", "ConnectionError", "JSONDecodeError"}

\* the runs of the model client in the loop: <<chat request, generate request>>
ClientRuns == {<<"ok", "ok">>, <<"HTTPError", "Timeout">>, <<"Timeout", "ok">>}

\* graph.py _call_local_llm: the chat endpoint, then, after an HTTPError only,
\* the generate endpoint; every other exception is the failure value at once
_call_local_llm(chat, generate, text) ==
    IF chat = "ok" THEN text
    ELSE IF chat = "HTTPError"
         THEN (IF generate = "ok" THEN text ELSE LLM_ERROR)
         ELSE LLM_ERROR

\* the requests.post calls a run of graph.py's _call_local_llm makes, in order
Posts(chat, generate) ==
    IF chat = "HTTPError" THEN <<"/api/chat", "/api/generate">> ELSE <<"/api/chat">>

\* whether one of the requests sent was answered
Answered(chat, generate) == chat = "ok" \/ (chat = "HTTPError" /\ generate = "ok")

\* the time a model call takes: each request between MinCallTime and its timeout
CallTimes == {MinCallTime, LLMTimeout}

\* the clock of the model stops at ClockMax, the first tick past the budget
ClockMax == TimeBudget + MinCallTime
Advance(t, d) == IF t + d > ClockMax THEN ClockMax ELSE t + d

\* the texts the backend can answer with in a run of the client
Texts(run) == IF Answered(run[1], run[2]) THEN ModelOutputs ELSE {<<>>}

\* the classifier's responses, as router.py's _call_local_llm returns them (stripped)
ClassifierResponses == {"", "chat", "task", "Chat.", "TASK", "a chat", "chatty task"}

\* str.lower() over the responses of the model
lower(text) ==
    CASE text = "Chat." -> "chat."
      [] text = "TASK"  -> "task"
      [] OTHER          -> text

\* str.split() over the responses of the model
split(text) ==
    CASE text = ""            -> <<>>
      [] text = "a chat"      -> <<"a", "chat">>
      [] text = "chatty task" -> <<"chatty", "task">>
      [] OTHER                -> <<text>>

\* faulty variant: normalized == "chat" only
contains_chat_exact(tok) == tok = "chat"

\* "chat" in normalized
contains_chat(tok) == tok \in {"chat", "chat.", "chatty"}

\* router.py:54-57
intent_of(result) ==
    LET normalized == IF result # "" THEN split(lower(result))[1] ELSE ""
    IN IF normalized = "chat" \/ contains_chat(normalized) THEN "chat" ELSE "task"

\* what friendly_chat_node's _ollama_chat / _resolve_model return: never empty
FriendlyReplies == {"Hello!", "(No response.)", "Local LLM is unavailable.",
                    "No local models found. Run: ollama pull <model>"}

-----------------------------------------------------------------------------
(* Tools *)

DEMO_RESULT == "dict: demo_url"
SMES_RESULT == "list: smes"
TOOL_ERROR == "TypeError: unexpected keyword argument"

\* faulty variant: no result is promoted
has_demo_url_never(result) == FALSE

\* isinstance(result, dict) and result.get("demo_url")
has_demo_url(result) == result = DEMO_RESULT

PROMOTED_DEMO == "message / Open the demo: url"

-----------------------------------------------------------------------------
(* State *)

VARIABLES
    node,         \* the graph node about to run; "reflect" is inside execute_tool
    state,        \* the AgentState of the invocation (absent keys hold their defaults)
    now,          \* time.monotonic(), counted from the first entry into the loop
    locals,       \* execute_tool's call of _reflect_and_retry: its local variables
    ev,           \* history: what the last step did
    escalations,  \* history: _handle_timeout_or_followup calls in the session
    turn,         \* history: followup_count at invocation, answered model requests
    parsing,      \* a call of _parse_model_output on its own: its argument and result
    client        \* a call of graph.py's _call_local_llm on its own: requests and result

vars == <<node, state, now, locals, ev, escalations, turn, parsing, client>>

\* the variables of the graph, and those of the functions examined on their own
graphvars == <<node, state, now, locals, ev, escalations, turn>>
unitvars == <<parsing, client>>

\* no call of _parse_model_output / _call_local_llm on its own is under way
NoParsing == [model_output |-> <<>>, result |-> <<>>]
NoClient == [chat |-> "", generate |-> "", text |-> <<>>, posts |-> <<>>,
             returned |-> FALSE, result |-> <<>>]

\* start_time is None
NoTime == 0 - 1

\* agent_graph.invoke({"messages": [HumanMessage(...)], ...}): the input state, with
\* followup_count absent (0) or carried over from the session
InputState(msg, followups) ==
    [ messages             |-> msg,
      intent               |-> None,
      intermediate_steps   |-> <<>>,
      thought_history      |-> <<>>,
      iteration_count      |-> 0,
      final_answer         |-> None,
      pending_action       |-> None,
      pending_action_input |-> None,
      last_model_output    |-> <<>>,
      start_time           |-> NoTime,
      followup_count       |-> followups ]

NoLocals == [action |-> None, action_input |-> None, error_message |-> None, i |-> 0]

\* the record of a step: the node that ran, the model calls and tool calls it
\* started, the escalations it invoked, and in res the response classify_intent got
\* or how a pass of _reflect_and_retry ended ("success", "failure", "retry"); failed
\* when a model call the step made returned no response
Event(op, llm, tool, esc, res) ==
    [op |-> op, llm |-> llm, tool |-> tool, esc |-> esc, res |-> res, failed |-> FALSE]

\* the history of a turn: followup_count at invocation, whether a model request was
\* answered, the model calls of the last _reflect_and_retry episode
NewTurn(followups) == [followups |-> followups, answered |-> FALSE, episode_calls |-> 0]

\* what a handler returns in the model: the state, and what it did on the way
Ret(st, llm, tool, esc) == [st |-> st, llm |-> llm, tool |-> tool, esc |-> esc]

-----------------------------------------------------------------------------
(* Follow-up escalation *)

\* faulty variant: followups > 5
FollowupsExhausted_late(followups) == followups > FollowupCap

\* if followups >= 5
FollowupsExhausted(followups) == followups >= FollowupCap

\* faulty variant: state["pending_action"] = None is missing
_handle_timeout_or_followup_keeps(st) ==
    LET followups == st.followup_count IN
    IF FollowupsExhausted(followups)
    THEN [st EXCEPT !.final_answer = CANNED]
    ELSE [st EXCEPT !.followup_count = followups + 1,
                    !.final_answer = IF _detect_user_language(st.messages) = "zh"
                                     THEN CLARIFY_ZH ELSE CLARIFY_EN]

_handle_timeout_or_followup(st) ==
    LET followups == st.followup_count IN
    IF FollowupsExhausted(followups)
    THEN [st EXCEPT !.final_answer = CANNED, !.pending_action = None]
    ELSE [st EXCEPT !.followup_count = followups + 1,
                    !.final_answer = IF _detect_user_language(st.messages) = "zh"
                                     THEN CLARIFY_ZH ELSE CLARIFY_EN,
                    !.pending_action = None]

\* the state after _check_runtime_limit(state): start_time recorded on first entry
RecordStart(st, t) ==
    IF st.start_time = NoTime THEN [st EXCEPT !.start_time = t] ELSE st

\* the value _check_runtime_limit returns
_check_runtime_limit(st, t) == FALSE

-----------------------------------------------------------------------------
(* classify_intent and friendly_chat *)

\* router.py classify_intent; its _call_local_llm raises unless the request is answered
classify_intent(st, result) == [st EXCEPT !.intent = intent_of(result)]

Run_classify_intent ==
    /\ node = "classify_intent"
    /\ \E outcome \in Outcomes, result \in ClassifierResponses :
         IF outcome = "ok"
         THEN /\ state' = classify_intent(state, result)
              /\ node' = IF state'.intent = "chat" THEN "friendly_chat" ELSE "call_model"
              /\ turn' = [turn EXCEPT !.answered = TRUE]
              /\ ev' = Event("classify_intent", 1, 0, 0, result)
         ELSE /\ node' = "Crashed"
              /\ ev' = [Event("classify_intent", 1, 0, 0, "") EXCEPT !.failed = TRUE]
              /\ UNCHANGED <<state, turn>>
    /\ UNCHANGED <<now, locals, escalations>>
    /\ UNCHANGED unitvars

\* chatbot.py friendly_chat_node
friendly_chat(st, response) ==
    [st EXCEPT !.final_answer = response, !.last_model_output = <<Line("", response)>>]

Run_friendly_chat ==
    /\ node = "friendly_chat"
    /\ \E response \in FriendlyReplies : state' = friendly_chat(state, response)
    /\ node' = "End"
    /\ ev' = Event("friendly_chat", 1, 0, 0, "")
    /\ UNCHANGED <<now, locals, escalations, turn>>
    /\ UNCHANGED unitvars

-----------------------------------------------------------------------------
(* call_model *)

\* faulty variant: the early return is missing
AlreadyAnswered_never(st) == FALSE

\* if state.get("final_answer"): return state
AlreadyAnswered(st) == Truthy(st.final_answer)

call_model(st, t, chat, generate, text) ==
    IF AlreadyAnswered(st) THEN Ret(st, 0, 0, 0)
    ELSE
    LET s1 == RecordStart(st, t) IN
    IF _check_runtime_limit(st, t) THEN Ret(_handle_timeout_or_followup(s1), 0, 0, 1)
    ELSE IF WantsCodeAnalysis(st.messages)
    THEN Ret([s1 EXCEPT !.pending_action = "analyze_code_logic",
                        !.pending_action_input = "dict:path",
                        !.final_answer = None], 0, 0, 0)
    ELSE
    LET model_output == _call_local_llm(chat, generate, text)
        s2 == [s1 EXCEPT !.last_model_output = model_output]
    IN
    IF IsLLMError(model_output) THEN Ret(_handle_timeout_or_followup(s2), 1, 0, 1)
    ELSE
    LET parsed == _parse_model_output(model_output)
        action == parsed[1]
        final  == parsed[3]
        s3 == [s2 EXCEPT !.thought_history = Append(@, Thought(model_output)),
                         !.iteration_count = @ + 1,
                         !.pending_action = action,
                         !.pending_action_input = parsed[2]]
    IN
    Ret(IF Truthy(action) THEN [s3 EXCEPT !.final_answer = None]
        ELSE IF Truthy(final) THEN [s3 EXCEPT !.final_answer = final]
        ELSE s3, 1, 0, 0)

\* faulty variant: the pending action is looked at first
route_next_action_first(st) ==
    IF Truthy(st.pending_action) THEN "execute_tool"
    ELSE "End"

route_next(st) ==
    IF Truthy(st.final_answer) THEN "End"
    ELSE IF Truthy(st.pending_action) THEN "execute_tool"
    ELSE "End"

Run_call_model(max_iter) ==
    /\ node = "call_model"
    /\ \E run \in ClientRuns, d \in CallTimes : \E text \in Texts(run) :
         LET chat == run[1]
             generate == run[2]
             r == call_model(state, now, chat, generate, text)
         IN
         /\ r.llm > 0 => state.iteration_count < max_iter
         /\ state' = r.st
         /\ now' = IF r.llm > 0 THEN Advance(now, d) ELSE now
         /\ turn' = IF r.llm > 0 /\ Answered(chat, generate)
                    THEN [turn EXCEPT !.answered = TRUE] ELSE turn
         /\ ev' = [Event("call_model", r.llm, r.tool, r.esc, "")
                     EXCEPT !.failed = r.llm > 0 /\ ~Answered(chat, generate)]
         /\ escalations' = escalations + r.esc
    /\ node' = route_next(state')
    /\ UNCHANGED locals
    /\ UNCHANGED unitvars

-----------------------------------------------------------------------------
(* execute_tool and _reflect_and_retry *)

\* f"Unknown tool: {action}"
UnknownTool(action) ==
    CASE action = "nonexistent_tool"   -> "Unknown tool: nonexistent_tool"
      [] action = "analyze_code_logic" -> "Unknown tool: analyze_code_logic"
      [] OTHER                         -> "Unknown tool: ?"

BAD_INPUT == "Action Input must be valid JSON object."
LLM_ERROR_TEXT == "Local LLM error: timed out"

\* action_input or {}
or_empty_dict(v) == IF v = None THEN "dict:empty" ELSE v

\* the result of a tool call that does not raise
ToolResult(tool) == IF tool = "run_demo_presentation" THEN DEMO_RESULT ELSE SMES_RESULT

\* faulty variant: the lookup is not checked
IsRegistered_any(action) == TRUE

\* tool_map.get(action) is not None
IsRegistered(action) == action \in _tool_registry

\* faulty variant: state["intermediate_steps"] = [(action, result)]
AppendStep_overwrite(steps, action, result) == << <<action, result>> >>

\* state.setdefault("intermediate_steps", []).append((action, result))
AppendStep(steps, action, result) == Append(steps, <<action, result>>)

\* what execute_tool does up to its return or its call of _reflect_and_retry
Exec(st, llm, tool, esc, reflect, loc) ==
    [st |-> st, llm |-> llm, tool |-> tool, esc |-> esc, reflect |-> reflect, loc |-> loc]

execute_tool(st, t, raises) ==
    LET s1 == RecordStart(st, t)
        action == st.pending_action
        action_input == st.pending_action_input
    IN
    IF _check_runtime_limit(st, t)
    THEN Exec(_handle_timeout_or_followup(s1), 0, 0, 1, FALSE, NoLocals)
    ELSE IF ~Truthy(action)
    THEN Exec(_handle_timeout_or_followup(s1), 0, 0, 1, FALSE, NoLocals)
    ELSE IF ~IsRegistered(action)
    THEN Exec(_handle_timeout_or_followup(
                 [s1 EXCEPT !.intermediate_steps = AppendStep(@, action, UnknownTool(action))]),
              0, 0, 1, FALSE, NoLocals)
    ELSE IF ~isinstance_dict(action_input)
    THEN Exec(s1, 0, 0, 0, TRUE,
              [action |-> action, action_input |-> or_empty_dict(action_input),
               error_message |-> BAD_INPUT, i |-> 0])
    ELSE IF raises
    THEN Exec(s1, 0, 1, 0, TRUE,
              [action |-> action, action_input |-> action_input,
               error_message |-> TOOL_ERROR, i |-> 0])
    ELSE
    LET result == ToolResult(action)
        s2 == [s1 EXCEPT !.intermediate_steps = AppendStep(@, action, result)]
    IN
    IF action = "analyze_code_logic" /\ isinstance_dict(result)
    THEN Exec([s2 EXCEPT !.final_answer = "Model summary"], 0, 1, 0, FALSE, NoLocals)
    ELSE IF has_demo_url(result)
    THEN Exec([s2 EXCEPT !.final_answer = PROMOTED_DEMO], 0, 1, 0, FALSE, NoLocals)
    ELSE Exec(s2, 0, 1, 0, FALSE, NoLocals)

\* one pass of the loop of _reflect_and_retry; "returned" when the function returns in
\* or after this pass, with (success, result)
Pass(st, loc, returned, success, result, llm, tool) ==
    [st |-> st, loc |-> loc, returned |-> returned, success |-> success,
     result |-> result, llm |-> llm, tool |-> tool]

\* `continue`, or the end of the loop body: the next pass, or return False, error_message
NextPass(st, loc, tool) ==
    LET l2 == [loc EXCEPT !.i = @ + 1] IN
    IF l2.i >= ReflectAttempts
    THEN Pass(st, l2, TRUE, FALSE, l2.error_message, 1, tool)
    ELSE Pass(st, l2, FALSE, FALSE, None, 1, tool)

_reflect_and_retry(st, loc, chat, generate, text, raises) ==
    LET model_output == _call_local_llm(chat, generate, text) IN
    IF IsLLMError(model_output)
    THEN Pass(st, loc, TRUE, FALSE, LLM_ERROR_TEXT, 1, 0)
    ELSE
    LET s1 == [st EXCEPT !.thought_history = Append(@, Thought(model_output))]
        parsed == _parse_model_output(model_output)
        new_action == parsed[1]
        new_input == parsed[2]
        final == parsed[3]
    IN
    IF Truthy(final)
    THEN Pass([s1 EXCEPT !.final_answer = final], loc, TRUE, TRUE, final, 1, 0)
    ELSE IF ~Truthy(new_action) \/ ~isinstance_dict(new_input)
    THEN NextPass(s1, loc, 0)
    ELSE
    LET l1 == [loc EXCEPT !.action = new_action, !.action_input = new_input] IN
    IF ~IsRegistered(new_action)
    THEN NextPass(s1, [l1 EXCEPT !.error_message = UnknownTool(new_action)], 0)
    ELSE IF raises
    THEN NextPass(s1, [l1 EXCEPT !.error_message = TOOL_ERROR], 1)
    ELSE Pass(s1, l1, TRUE, TRUE, ToolResult(new_action), 1, 1)

\* whether the tool called in a pass raises: open only when the pass calls one
TryOutcomes(pass) == IF pass.tool > 0 THEN BOOLEAN ELSE {FALSE}

\* execute_tool after _reflect_and_retry returned (success, result)
after_reflect(st, success, result) ==
    LET s1 == [st EXCEPT !.intermediate_steps = AppendStep(@, st.pending_action, result)] IN
    IF ~success THEN Ret(_handle_timeout_or_followup(s1), 0, 0, 1)
    ELSE Ret(s1, 0, 0, 0)

Run_execute_tool ==
    /\ node = "execute_tool"
    /\ \E raises \in TryOutcomes(execute_tool(state, now, FALSE)) :
         LET r == execute_tool(state, now, raises) IN
         /\ state' = r.st
         /\ locals' = r.loc
         /\ node' = IF r.reflect THEN "reflect" ELSE "call_model"
         /\ ev' = Event("execute_tool", r.llm, r.tool, r.esc, "")
         /\ escalations' = escalations + r.esc
         /\ turn' = IF r.reflect THEN [turn EXCEPT !.episode_calls = 0] ELSE turn
    /\ UNCHANGED now
    /\ UNCHANGED unitvars

Run_reflect ==
    /\ node = "reflect"
    /\ \E run \in ClientRuns, d \in CallTimes : \E text \in Texts(run) :
      \E raises \in TryOutcomes(_reflect_and_retry(state, locals, run[1], run[2], text, FALSE)) :
         LET chat == run[1]
             generate == run[2]
             p == _reflect_and_retry(state, locals, chat, generate, text, raises)
             r == IF p.returned THEN after_reflect(p.st, p.success, p.result)
                  ELSE Ret(p.st, 0, 0, 0)
         IN
         /\ state' = r.st
         /\ locals' = IF p.returned THEN NoLocals ELSE p.loc
         /\ node' = IF p.returned THEN "call_model" ELSE "reflect"
         /\ now' = Advance(now, d)
         /\ turn' = [turn EXCEPT !.answered = @ \/ Answered(chat, generate),
                                 !.episode_calls = @ + p.llm]
         /\ ev' = [Event("reflect", p.llm, p.tool, r.esc,
                          IF ~p.returned THEN "retry"
                          ELSE IF p.success THEN "success" ELSE "failure")
                     EXCEPT !.failed = ~Answered(chat, generate)]
         /\ escalations' = escalations + r.esc
    /\ UNCHANGED unitvars

-----------------------------------------------------------------------------
(* Sessions *)

\* generate_reply: every user message is a new invocation on a fresh state
generate_reply ==
    /\ node \in {"End", "Crashed"}
    /\ \E msg \in UserMessages : state' = InputState(msg, 0)
    /\ node' = "classify_intent"
    /\ now' = 0
    /\ locals' = NoLocals
    /\ ev' = Event("invoke", 0, 0, 0, "")
    /\ escalations' = 0
    /\ turn' = NewTurn(0)
    /\ UNCHANGED unitvars

\* a session that extends its state: the next invocation carries followup_count over
ExtendSession ==
    /\ node = "End"
    /\ escalations < MaxEscalations
    /\ \E msg \in UserMessages : state' = InputState(msg, state.followup_count)
    /\ node' = "classify_intent"
    /\ now' = 0
    /\ locals' = NoLocals
    /\ ev' = Event("invoke", 0, 0, 0, "")
    /\ turn' = NewTurn(state.followup_count)
    /\ UNCHANGED escalations
    /\ UNCHANGED unitvars

Init ==
    /\ node = "classify_intent"
    /\ \E msg \in UserMessages : state = InputState(msg, 0)
    /\ now = 0
    /\ locals = NoLocals
    /\ ev = Event("invoke", 0, 0, 0, "")
    /\ escalations = 0
    /\ turn = NewTurn(0)
    /\ parsing = NoParsing
    /\ client = NoClient

Next ==
    \/ Run_classify_intent
    \/ Run_friendly_chat
    \/ Run_call_model(MaxIter)
    \/ Run_execute_tool
    \/ Run_reflect
    \/ generate_reply

Spec == Init /\ [][Next]_vars

\* sessions whose invocations carry followup_count over
SessionNext ==
    \/ Run_classify_intent
    \/ Run_friendly_chat
    \/ Run_call_model(SessionIter)
    \/ Run_execute_tool
    \/ Run_reflect
    \/ generate_reply
    \/ ExtendSession

SessionSpec == Init /\ [][SessionNext]_vars

-----------------------------------------------------------------------------
(* _parse_model_output on its own *)

\* the graph is not running
GraphIdle ==
    /\ node = "Idle"
    /\ state = InputState("route question", 0)
    /\ now = 0
    /\ locals = NoLocals
    /\ ev = Event("invoke", 0, 0, 0, "")
    /\ escalations = 0
    /\ turn = NewTurn(0)

\* the lines of the model outputs handed to the parser
ParserLines == {
    Line("", "Thought: the Final Answer: is near"),
    Line("Action:", " find_smes_by_location"),
    Line("Action:", "run_demo_presentation"),
    Line("Action Input:", JSON_OBJ),
    Line("Action Input:", JSON_EMPTY),
    Line("Action Input:", JSON_ARR),
    Line("Action Input:", JSON_BAD),
    Line("Final Answer:", " Monterey "),
    Line("Final Answer:", "Salinas") }

ParserOutputs == UNION { [1..k -> ParserLines] : k \in 0..MaxLines }

Run_parse_model_output ==
    /\ parsing.result = <<>>
    /\ parsing' = [parsing EXCEPT !.result = _parse_model_output(parsing.model_output)]
    /\ UNCHANGED client
    /\ UNCHANGED graphvars

ParserInit ==
    /\ GraphIdle
    /\ parsing \in {[model_output |-> o, result |-> <<>>] : o \in ParserOutputs}
    /\ client = NoClient

ParserNext == Run_parse_model_output

ParserSpec == ParserInit /\ [][ParserNext]_vars

-----------------------------------------------------------------------------
(* graph.py's _call_local_llm on its own *)

Run_call_local_llm ==
    /\ ~client.returned
    /\ client' = [client EXCEPT
                    !.posts = Posts(client.chat, client.generate),
                    !.returned = TRUE,
                    !.result = _call_local_llm(client.chat, client.generate, client.text)]
    /\ UNCHANGED parsing
    /\ UNCHANGED graphvars

\* what the chat request and the generate request (if sent) do, and the text the
\* backend answers with when it answers
ClientInit ==
    /\ GraphIdle
    /\ parsing = NoParsing
    /\ \E chat \in Outcomes, generate \in Outcomes, text \in ModelOutputs :
          client = [NoClient EXCEPT !.chat = chat, !.generate = generate, !.text = text]

ClientNext == Run_call_local_llm

ClientSpec == ClientInit /\ [][ClientNext]_vars

-----------------------------------------------------------------------------
(* Properties *)

\* wall-clock time since start_time
Elapsed == IF state.start_time = NoTime THEN 0 ELSE now - state.start_time

Last(seq) == seq[Len(seq)]

\* the step taken invoked the follow-up escalation
Escalates == escalations' = escalations + 1

\* C1: a turn ends after a bounded number of call_model / execute_tool steps: every
\* model call of call_model takes at least MinCallTime, so the timeout guard lets
\* call_model make at most TimeBudget \div MinCallTime + 1 model calls in a turn
C1_BoundedCycle == state.iteration_count <= (TimeBudget \div MinCallTime) + 1

\* C2: once the time elapsed since start_time exceeds the budget, the next entry into
\* call_model (with no final answer yet) or execute_tool starts no model call and no
\* tool call and invokes the follow-up escalation
C2_NoCallPastBudget ==
    [][ ( /\ node \in {"call_model", "execute_tool"}
          /\ ~Truthy(state.final_answer)
          /\ Elapsed > TimeBudget )
        => (ev'.llm = 0 /\ ev'.tool = 0 /\ Escalates) ]_vars

\* C3: when every request to the model backend fails, the turn does not crash: it ends
\* at End with followup_count raised from 0 to 1 and a clarification as final_answer
C3_BackendDownEndsTurn ==
    (~turn.answered /\ node \in {"End", "Crashed"})
        => ( /\ node = "End"
             /\ state.followup_count = turn.followups + 1
             /\ state.final_answer \in Clarifications )

C6_AnsweredGoesToEnd ==
    [][ (node = "call_model" /\ Truthy(state.final_answer))
        => (ev'.llm = 0 /\ ev'.tool = 0 /\ state' = state /\ node' = "End") ]_vars

C6_EndedAfterToolAnswer ==
    /\ node = "End"
    /\ ev.op = "call_model" /\ ev.llm = 0
    /\ Truthy(state.final_answer)
    /\ Len(state.intermediate_steps) > 0

\* the names the model proposes that the registry does not hold
UnknownNames == {"nonexistent_tool", "analyze_code_logic"}

\* C7: with a pending action the registry does not hold, execute_tool calls no tool,
\* makes no reflection model call and escalates at once (whatever the Action Input);
\* a turn that began with followup_count 0 then ends with a clarification and
\* followup_count 1
C7_UnknownToolEscalates ==
    /\ [][ (node = "execute_tool" /\ state.pending_action \in UnknownNames)
           => ( /\ ev'.tool = 0 /\ ev'.llm = 0 /\ Escalates
                /\ node' = "call_model"
                /\ turn.followups = 0
                     => ( /\ state'.followup_count = 1
                          /\ state'.final_answer \in Clarifications ) ) ]_vars
    /\ []( ( /\ node = "End"
             /\ Len(state.intermediate_steps) > 0
             /\ Last(state.intermediate_steps)[1] \in UnknownNames
             /\ turn.followups = 0 )
           => (state.followup_count = 1 /\ state.final_answer \in Clarifications) )

C7_UnknownToolBadInput ==
    /\ node = "End"
    /\ Len(state.intermediate_steps) > 0
    /\ Last(state.intermediate_steps) = <<"nonexistent_tool", "Unknown tool: nonexistent_tool">>
    /\ state.pending_action_input = None
    /\ state.followup_count = 1
    /\ state.final_answer \in Clarifications

\* C8: an episode of _reflect_and_retry makes at most 3 model calls, and after the
\* first pass that yields a tool result or a final answer it makes no further pass
C8_ReflectionBounded ==
    /\ [](turn.episode_calls <= 3)
    /\ [][ (node = "reflect" /\ (ev'.res = "success" \/ turn.episode_calls >= 2))
           => node' # "reflect" ]_vars

C8_ThirdPassSucceeds ==
    /\ turn.episode_calls = 3
    /\ ev.op = "reflect" /\ ev.res = "success" /\ ev.tool = 1
    /\ node = "call_model"

\* C9: when execute_tool calls a registered tool with a well-formed input and the tool
\* returns, intermediate_steps gains exactly the entry (action, result), and the next
\* step is call_model
C9_SuccessAppendsOne ==
    [][ ( /\ node = "execute_tool"
          /\ state.pending_action \in {"find_smes_by_location", "run_demo_presentation"}
          /\ isinstance_dict(state.pending_action_input)
          /\ ev'.tool = 1 /\ node' # "reflect" )
        => ( /\ \E result \in {SMES_RESULT, DEMO_RESULT} :
                  state'.intermediate_steps =
                      Append(state.intermediate_steps, <<state.pending_action, result>>)
             /\ node' = "call_model" ) ]_vars

C9_SecondStepAppended ==
    /\ node = "call_model"
    /\ ev.op = "execute_tool" /\ ev.tool = 1
    /\ Len(state.intermediate_steps) = 2
    /\ ~Truthy(state.final_answer)

\* C10: final_answer and pending_action are never both non-empty
C10_OneActive == ~(Truthy(state.final_answer) /\ Truthy(state.pending_action))

\* C11: every follow-up escalation leaves final_answer non-empty and pending_action
\* cleared, and from it to End the machine makes no model call and no tool call
C11_EscalationTerminal ==
    /\ [][ Escalates
           => ( /\ Truthy(state'.final_answer)
                /\ state'.pending_action = None
                /\ node' \in {"call_model", "End"} ) ]_vars
    /\ [][ (ev.esc = 1 /\ node = "call_model")
           => (ev'.llm = 0 /\ ev'.tool = 0 /\ node' = "End") ]_vars

C11_EndedAfterRetriesFailed ==
    /\ node = "End"
    /\ ev.op = "call_model" /\ ev.llm = 0
    /\ Len(state.intermediate_steps) > 0
    /\ Last(state.intermediate_steps) = <<"find_smes_by_location", TOOL_ERROR>>
    /\ state.final_answer \in Clarifications
    /\ state.pending_action = None

\* the lines of a model output that carry a marker
MarkerLines(lines) == {i \in 1..Len(lines) : lines[i].marker # ""}

\* the last line of a model output that carries the marker m (0: none does)
LastWith(lines, m) ==
    LET S == {i \in 1..Len(lines) : lines[i].marker = m}
    IN IF S = {} THEN 0 ELSE CHOOSE i \in S : \A j \in S : j <= i

\* the value the text of a marker line stands for
ValueOf(l) ==
    IF l.marker # "Action Input:" THEN strip(l.text)
    ELSE CASE l.text = JSON_OBJ   -> "dict:location"
           [] l.text = JSON_EMPTY -> "dict:empty"
           [] l.text = JSON_ARR   -> "list:1"
           [] OTHER               -> None

\* C12: for a model output whose only marker line is `Final Answer: X`,
\* _parse_model_output returns (None, None, X)
C12_OnlyFinalAnswer ==
    \A i \in 1..Len(parsing.model_output) :
        ( /\ parsing.result # <<>>
          /\ MarkerLines(parsing.model_output) = {i}
          /\ parsing.model_output[i].marker = "Final Answer:" )
        => /\ parsing.result = <<None, None, strip(parsing.model_output[i].text)>>
           /\ parsing.result[3] \in {"Monterey", "Salinas"}

C12_FinalAnswerAmongText ==
    /\ Len(parsing.model_output) = 3
    /\ MarkerLines(parsing.model_output) = {2}
    /\ parsing.model_output[2] = Line("Final Answer:", " Monterey ")
    /\ parsing.result = <<None, None, "Monterey">>

\* the three markers, in the order of the parser's result
Markers == <<"Action:", "Action Input:", "Final Answer:">>

\* C13: _parse_model_output returns, for each marker, the value of the last line that
\* carries it (None when no line does), also when a Final Answer line comes before
\* the Action and Action Input lines
C13_LastOccurrenceWins ==
    parsing.result # <<>>
    => \A k \in 1..3 :
          LET last == LastWith(parsing.model_output, Markers[k]) IN
          parsing.result[k] = IF last = 0 THEN None
                              ELSE ValueOf(parsing.model_output[last])

C13_ActionAfterFinalAnswer ==
    /\ parsing.model_output =
          << Line("Final Answer:", "Salinas"), Line("Action:", "run_demo_presentation"),
             Line("Action:", " find_smes_by_location"), Line("Action Input:", JSON_OBJ) >>
    /\ parsing.result = <<"find_smes_by_location", "dict:location", "Salinas">>

\* C14: the action_input _parse_model_output returns is None or a map, and it is None
\* when the payload of the last Action Input line is not a JSON object
C14_InputNoneOrMap ==
    parsing.result # <<>>
    => LET last == LastWith(parsing.model_output, "Action Input:") IN
       /\ parsing.result[2] = None \/ isinstance_dict(parsing.result[2])
       /\ (last # 0 /\ parsing.model_output[last].text \notin {JSON_OBJ, JSON_EMPTY})
             => parsing.result[2] = None

\* C15: graph.py's _call_local_llm returns the failure value only after both the chat
\* endpoint and the generate endpoint have been tried
C15_BothEndpointsTried ==
    (client.returned /\ IsLLMError(client.result))
        => client.posts = <<"/api/chat", "/api/generate">>

\* the classifier responses whose first token, lower-cased, is or contains chat
ChatResponses == {"chat", "Chat.", "chatty task"}

\* C16: classify_intent sets intent to chat exactly for the responses whose first
\* token, lower-cased, is or contains chat, and to task for the others; the machine
\* enters friendly_chat exactly when intent is chat, and a chat turn goes from
\* friendly_chat to End without a tool call, never through call_model or execute_tool
C16_IntentRouting ==
    /\ [][ (node = "classify_intent" /\ node' # "Crashed")
           => ( /\ state'.intent = IF ev'.res \in ChatResponses THEN "chat" ELSE "task"
                /\ node' = IF state'.intent = "chat" THEN "friendly_chat"
                            ELSE "call_model" ) ]_vars
    /\ [][ (state.intent = "chat" /\ node \notin {"End", "Crashed"})
           => (node = "friendly_chat" /\ node' = "End" /\ ev'.tool = 0) ]_vars
    /\ [](node \in {"call_model", "execute_tool", "reflect"} => state.intent = "task")

C16_ChatTurnEnded ==
    /\ node = "End"
    /\ state.intent = "chat"
    /\ ev.op = "friendly_chat"
    /\ state.final_answer = "Hello!"
    /\ state.intermediate_steps = <<>>
    /\ state.iteration_count = 0

\* C17: after call_model the machine goes to End when final_answer is non-empty
\* (whatever pending_action holds), to execute_tool when final_answer is empty and
\* pending_action is not, and to End otherwise; a response with neither an action
\* nor a final answer ends the turn
C17_RoutingAfterCallModel ==
    [][ node = "call_model"
        => ( /\ Truthy(state'.final_answer) => node' = "End"
             /\ (~Truthy(state'.final_answer) /\ Truthy(state'.pending_action))
                  => node' = "execute_tool"
             /\ (~Truthy(state'.final_answer) /\ ~Truthy(state'.pending_action))
                  => node' = "End" ) ]_vars

C17_EndedWithoutActionOrAnswer ==
    /\ node = "End"
    /\ ev.op = "call_model" /\ ev.llm = 1 /\ ev.esc = 0
    /\ state.iteration_count = 1
    /\ state.final_answer = None
    /\ state.pending_action = None

\* C18: when execute_tool returns after the tool was invoked, pending_action and
\* pending_action_input are cleared
C18_PendingCleared ==
    [][ ( /\ node \in {"execute_tool", "reflect"}
          /\ node' = "call_model"
          /\ ev'.tool = 1 )
        => (state'.pending_action = None /\ state'.pending_action_input = None) ]_vars

\* C19: iteration_count never decreases within a turn; every model call call_model
\* makes, answered or failed, raises it by exactly 1, and execute_tool with its
\* reflection model calls leaves it unchanged
C19_CountsLoopCalls ==
    /\ [][ ev'.op # "invoke" => state'.iteration_count >= state.iteration_count ]_vars
    /\ [][ node = "call_model"
           => state'.iteration_count = state.iteration_count + ev'.llm ]_vars
    /\ [][ (node = "execute_tool" \/ node = "reflect")
           => state'.iteration_count = state.iteration_count ]_vars

\* C20: once a model response has named a tool the registry does not hold, in
\* call_model or in a pass of _reflect_and_retry, the next step prompts no model
C20_UnknownNotReprompted ==
    [][ ( \/ node = "execute_tool" /\ state.pending_action \in UnknownNames
          \/ node = "reflect" /\ locals.action \in UnknownNames )
        => ev'.llm = 0 ]_vars

\* C21: with a registered pending action and a pending_action_input that is not an
\* object, execute_tool invokes no tool and starts a _reflect_and_retry episode; an
\* episode is followed by the follow-up escalation only when it fails
C21_BadInputReflects ==
    /\ [][ ( /\ node = "execute_tool"
             /\ IsRegistered(state.pending_action)
             /\ state.pending_action_input \in {None, "list:1"} )
           => ( /\ ev'.tool = 0 /\ ev'.esc = 0 /\ ~Escalates
                /\ node' = "reflect"
                /\ locals'.error_message = BAD_INPUT
                /\ state' = state ) ]_vars
    /\ [][ (node = "reflect" /\ Escalates) => ev'.res = "failure" ]_vars
    /\ [][ (node = "reflect" /\ ev'.res = "failure") => Escalates ]_vars

C21_ArrayInputRecovered ==
    /\ node = "call_model"
    /\ ev.op = "reflect" /\ ev.res = "success" /\ ev.tool = 1
    /\ state.pending_action_input = "list:1"
    /\ Last(state.intermediate_steps)[2] = SMES_RESULT
    /\ state.followup_count = 0

\* C22: a pass of _reflect_and_retry whose model call fails ends the episode with
\* failure: it calls no tool, parses and records nothing of the failed output, no
\* further pass follows, and execute_tool appends the failure and escalates
C22_FailedReflectionAborts ==
    [][ (node = "reflect" /\ ev'.failed)
        => ( /\ ev'.res = "failure" /\ ev'.llm = 1 /\ ev'.tool = 0
             /\ Escalates
             /\ node' = "call_model"
             /\ state'.thought_history = state.thought_history
             /\ state'.intermediate_steps =
                    Append(state.intermediate_steps, <<state.pending_action, LLM_ERROR_TEXT>>)
             /\ Truthy(state'.final_answer) ) ]_vars

C22_SecondReflectionCallFailed ==
    /\ node = "call_model"
    /\ ev.op = "reflect" /\ ev.failed /\ ev.res = "failure"
    /\ turn.episode_calls = 2
    /\ Last(state.intermediate_steps) = <<"find_smes_by_location", LLM_ERROR_TEXT>>
    /\ state.final_answer \in Clarifications

\* C23: in a _reflect_and_retry episode started by a tool that raised (the pending
\* input is an object), a corrected tool call that succeeds appends its result,
\* leaves final_answer empty and returns to call_model; an episode that fails after
\* 3 answered passes reports the error text of the last failed tool execution and
\* escalates
C23_RaisedToolRetried ==
    /\ [][ ( /\ node = "reflect"
             /\ isinstance_dict(state.pending_action_input)
             /\ ev'.res = "success" /\ ev'.tool = 1 )
           => ( /\ Len(state'.intermediate_steps) = Len(state.intermediate_steps) + 1
                /\ Last(state'.intermediate_steps)[2] \in {SMES_RESULT, DEMO_RESULT}
                /\ ~Truthy(state'.final_answer)
                /\ node' = "call_model" ) ]_vars
    /\ [][ ( /\ node = "reflect"
             /\ isinstance_dict(state.pending_action_input)
             /\ ev'.res = "failure" /\ ~ev'.failed )
           => ( /\ turn'.episode_calls = 3
                /\ Last(state'.intermediate_steps)[2] = TOOL_ERROR
                /\ Escalates ) ]_vars

\* C24: call_model entered with an empty final_answer makes exactly one model call,
\* and when that call is answered the pending_action and pending_action_input it
\* leaves are those parsed from the output
C24_ActionsComeFromModel ==
    [][ (node = "call_model" /\ ~Truthy(state.final_answer))
        => ( /\ ev'.llm = 1
             /\ ~ev'.failed
                  => ( /\ state'.pending_action =
                              _parse_model_output(state'.last_model_output)[1]
                       /\ state'.pending_action_input =
                              _parse_model_output(state'.last_model_output)[2] ) ) ]_vars

\* C25: execute_tool entered with pending_action analyze_code_logic and an object as
\* input calls the tool and promotes the rendered report into final_answer
C25_AnalysisPromoted ==
    [][ ( /\ node = "execute_tool"
          /\ state.pending_action = "analyze_code_logic"
          /\ isinstance_dict(state.pending_action_input) )
        => ( /\ ev'.tool = 1
             /\ ~Escalates
             /\ state'.final_answer = "Model summary" ) ]_vars

\* C26 as stated: whenever a tool that was executed returns a map with demo_url, in
\* execute_tool itself or in its _reflect_and_retry episode, execute_tool appends the
\* step and sets final_answer
C26_DemoResultEndsTurn ==
    [][ ( /\ node = "execute_tool" \/ node = "reflect"
          /\ ev'.tool = 1
          /\ Len(state'.intermediate_steps) > Len(state.intermediate_steps)
          /\ Last(state'.intermediate_steps)[2] = DEMO_RESULT )
        => (state'.final_answer = PROMOTED_DEMO /\ node' = "call_model") ]_vars

\* C26 amended: when the tool execute_tool calls itself returns a map with demo_url,
\* execute_tool appends the step and sets final_answer, and the following call_model
\* makes no model call and goes to End; a result obtained in a _reflect_and_retry
\* episode is appended with final_answer left empty
C26_DirectDemoResultEndsTurn ==
    /\ [][ ( /\ node = "execute_tool"
             /\ ev'.tool = 1
             /\ Len(state'.intermediate_steps) > Len(state.intermediate_steps)
             /\ Last(state'.intermediate_steps)[2] = DEMO_RESULT )
           => ( /\ state'.intermediate_steps =
                      Append(state.intermediate_steps, <<state.pending_action, DEMO_RESULT>>)
                /\ state'.final_answer = PROMOTED_DEMO
                /\ node' = "call_model" ) ]_vars
    /\ [][ (node = "call_model" /\ state.final_answer = PROMOTED_DEMO)
           => (ev'.llm = 0 /\ ev'.tool = 0 /\ state' = state /\ node' = "End") ]_vars
    /\ [][ (node = "reflect" /\ ev'.res = "success" /\ ev'.tool = 1)
           => (state'.final_answer = None /\ node' = "call_model") ]_vars

C26_EndedOnPromotedDemo ==
    /\ node = "End"
    /\ ev.op = "call_model" /\ ev.llm = 0
    /\ state.final_answer = PROMOTED_DEMO
    /\ Last(state.intermediate_steps) = <<"run_demo_presentation", DEMO_RESULT>>
    /\ state.followup_count = 0

\* C27: an invocation of the graph runs the follow-up escalation at most once, so
\* followup_count is at most its value at invocation plus 1; on the fresh state
\* generate_reply starts from it never exceeds 1 and the canned message never appears
C27_OneEscalationPerTurn ==
    /\ [](escalations <= 1)
    /\ [](state.followup_count <= turn.followups + 1)
    /\ [](state.followup_count <= 1 /\ state.final_answer # CANNED)
    /\ [][ (Escalates /\ node' # "End")
           => (node' = "call_model" /\ Truthy(state'.final_answer)) ]_vars

C27_EndedAfterOneEscalation ==
    /\ node = "End"
    /\ escalations = 1
    /\ state.followup_count = 1
    /\ state.iteration_count = 2
    /\ state.final_answer \in Clarifications

\* C28: every tool invocation execute_tool makes itself comes right after a call_model
\* step whose model call was answered and whose parsed action is the one invoked, so
\* no parsed action is executed twice
C28_NoActionExecutedTwice ==
    /\ [][ (node = "execute_tool" /\ ev'.tool = 1)
           => ( /\ ev.op = "call_model" /\ ev.llm = 1 /\ ~ev.failed
                /\ state.pending_action =
                       _parse_model_output(state.last_model_output)[1] ) ]_vars
    /\ [][ node = "execute_tool" => node' # "execute_tool" ]_vars

C28_ToolInvokedTwiceInTurn ==
    /\ node = "call_model"
    /\ ev.op = "execute_tool" /\ ev.tool = 1
    /\ state.iteration_count = 2
    /\ state.intermediate_steps =
          << <<"find_smes_by_location", SMES_RESULT>>, <<"find_smes_by_location", SMES_RESULT>> >>

\* C29: an entry of intermediate_steps that holds the return value of a tool names
\* the tool that returned it
C29_StepsNameTheirTool ==
    \A i \in 1..Len(state.intermediate_steps) :
        LET step == state.intermediate_steps[i] IN
        step[2] \in {SMES_RESULT, DEMO_RESULT} => step[2] = ToolResult(step[1])

\* C30: a task turn is at End with an empty final_answer only right after a call_model
\* step whose model call was answered with neither a non-empty action nor a non-empty
\* final answer; a follow-up escalation, a final answer found by _reflect_and_retry
\* and a promoted result each leave a non-empty final_answer, which is kept to End
C30_EmptyAnswerOnlyWithoutMarkers ==
    /\ []( (node = "End" /\ state.intent = "task" /\ ~Truthy(state.final_answer))
           => ( /\ ev.op = "call_model" /\ ev.llm = 1 /\ ~ev.failed
                /\ ~Truthy(_parse_model_output(state.last_model_output)[1])
                /\ ~Truthy(_parse_model_output(state.last_model_output)[3]) ) )
    /\ [][ ( \/ Escalates
             \/ node = "reflect" /\ ev'.res = "success" /\ ev'.tool = 0
             \/ node = "execute_tool" /\ ev'.tool = 1
                   /\ Len(state'.intermediate_steps) > Len(state.intermediate_steps)
                   /\ Last(state'.intermediate_steps)[2] = DEMO_RESULT )
           => Truthy(state'.final_answer) ]_vars
    /\ [][ (Truthy(state.final_answer) /\ node \notin {"End", "Crashed"})
           => (state'.final_answer = state.final_answer /\ node' = "End") ]_vars

C30_EndedOnReflectionAnswer ==
    /\ node = "End"
    /\ state.intent = "task"
    /\ state.final_answer = "Monterey"
    /\ Len(state.intermediate_steps) = 1
    /\ Last(state.intermediate_steps) = <<"find_smes_by_location", "Monterey">>

====
